---- MODULE Spec2Model ----
(***************************************************************************)
(* Model of src/scrape_quotes.py: the pagination walker scrape_all_pages,  *)
(* the single-page variant scrape_first_page and the driver bootstrap      *)
(* _build_chrome, run against a small web site.                            *)
(*                                                                         *)
(* A string is a sequence of chunks: the chunk "/" is the slash character, *)
(* every other chunk is a slash-free piece of text.  The empty string (and *)
(* Python's None, equally falsy) is the empty sequence.                    *)
(*                                                                         *)
(* An element lookup is modelled by the sequence of elements that match:   *)
(* find_element returns its head and raises NoSuchElementException when it *)
(* is empty, find_elements returns the whole sequence.                     *)
(***************************************************************************)
EXTENDS Integers, Sequences, FiniteSets, TLC

\* ------------------------------------------------------------------ bounds
\* most records in a list handed to save_to_txt on its own
MaxItems == 2
\* most record containers on the whole site
MaxQuotes == 3
\* most driver.get calls followed in one run
MaxVisits == 3

\* ------------------------------------------------------------ string model
Slash == "/"

RECURSIVE RStrip(_)
\* str.rstrip('/'): drop every trailing slash
RStrip(s) ==
  IF s # <<>> /\ s[Len(s)] = Slash THEN RStrip(SubSeq(s, 1, Len(s) - 1)) ELSE s

\* the literal "/page/2/"
PageTwoSuffix == <<Slash, "page", Slash, "2", Slash>>

\* the default start_url, "https://quotes.toscrape.com/"
StartUrl == <<"https://quotes.toscrape.com", Slash>>

\* driver.current_url.rstrip('/') + "/page/2/"
SynthUrl(cur) == RStrip(cur) \o PageTwoSuffix

\* ---------------------------------------------------------------- the site
SecondUrl == SynthUrl(StartUrl)
SiteUrls == {StartUrl, SecondUrl}
PageNo(u) == IF u = StartUrl THEN 1 ELSE 2

Shapes == {"ok", "no_text", "no_author"}
TagPool == << <<"love">>, <<"life">> >>

\* the k-th div.quote of page p: its span.text, small.author and a.tag matches
MkContainer(p, k, shape) ==
  [ text   |-> IF shape = "no_text" THEN <<>>
               ELSE << <<"quote", ToString(p), ToString(k)>> >>,
    author |-> IF shape = "no_author" THEN <<>>
               ELSE << <<"author", ToString(p), ToString(k)>> >>,
    tags   |-> SubSeq(TagPool, 1, 2 * (k % 2)) ]

MkQuotes(p, shapes) == [k \in 1..Len(shapes) |-> MkContainer(p, k, shapes[k])]

SeqsUpTo(S, n) == UNION {[1..m -> S] : m \in 0..n}
PageShapes == SeqsUpTo(Shapes, MaxQuotes)

\* li.next/a: absent, or an element with its href and data-href attributes
NoLink == [present |-> FALSE, href |-> <<>>, data |-> <<>>]
Link(h, d) == [present |-> TRUE, href |-> h, data |-> d]
NextLinks ==
  { NoLink, Link(StartUrl, <<>>), Link(SecondUrl, <<>>), Link(<<>>, <<>>),
    Link(<<>>, SecondUrl), Link(StartUrl, SecondUrl) }

Sites ==
  { [u \in SiteUrls |-> [quotes |-> MkQuotes(PageNo(u), sh[u]), next |-> ln[u]]] :
      sh \in {f \in [SiteUrls -> PageShapes] :
                 Len(f[StartUrl]) + Len(f[SecondUrl]) <= MaxQuotes},
      ln \in [SiteUrls -> NextLinks] }

\* a URL the site does not serve shows a page without containers or links
NotFound == [quotes |-> <<>>, next |-> NoLink]

\* ------------------------------------------------------------- save_to_txt
\* the characters json.dumps escapes: the double quote, the backslash and the
\* newline (standing for the control characters); every other chunk, ASCII
\* or not (ensure_ascii=False), is written as it is
DQ == "\""
BS == "\\"
LF == "\n"

RECURSIVE JsonEscape(_)
JsonEscape(str) ==
  IF str = <<>> THEN <<>>
  ELSE LET c == Head(str)
       IN  (IF c = DQ THEN <<BS, DQ>>
            ELSE IF c = BS THEN <<BS, BS>>
            ELSE IF c = LF THEN <<BS, "n">>
            ELSE <<c>>) \o JsonEscape(Tail(str))

\* JsonString, had the text been written between quotes as it is
JsonString_Raw(str) == <<DQ>> \o str \o <<DQ>>

JsonString(str) == <<DQ>> \o JsonEscape(str) \o <<DQ>>

RECURSIVE JsonList(_)
\* the items of a list, separated by ", "
JsonList(l) ==
  IF l = <<>> THEN <<>>
  ELSE JsonString(Head(l)) \o (IF Len(l) > 1 THEN <<",", " ">> ELSE <<>>)
         \o JsonList(Tail(l))

\* json.dumps(obj, ensure_ascii=False) of a record dict
Dumps(obj) ==
  <<"{">> \o JsonString(<<"quote">>) \o <<":", " ">> \o JsonString(obj.quote)
    \o <<",", " ">> \o JsonString(<<"author">>) \o <<":", " ">> \o JsonString(obj.author)
    \o <<",", " ">> \o JsonString(<<"tags">>) \o <<":", " ">>
    \o <<"[">> \o JsonList(obj.tags) \o <<"]">> \o <<"}">>

RECURSIVE WriteLines(_, _)
\* the loop of f.write calls on a file that holds f
WriteLines(f, items) ==
  IF items = <<>> THEN f
  ELSE WriteLines(f \o Dumps(Head(items)) \o <<LF>>, Tail(items))

\* SaveToTxt, had the file been opened with mode "a"
SaveToTxt_Append(old, items) == WriteLines(old, items)

\* open(path, "w") truncates; then one line per item
SaveToTxt(old, items) == WriteLines(<<>>, items)

\* what resposta.txt holds before the program runs
StaleFile == <<"stale", LF>>

VARIABLES
  site,         \* what the web site serves, per URL
  mode,         \* "all": scrape_all_pages, "first": scrape_first_page
  pc,           \* position of the run
  quits,        \* number of driver.quit() calls
  current_url,  \* the crawl cursor
  driver_url,   \* driver.current_url
  navigated,    \* the URLs passed to driver.get, in order
  quotes,       \* the containers found on the loaded page
  idx,          \* position of the container loop
  all_items,    \* the accumulator (all_items / data)
  result,       \* the value returned to the caller, <<>> until then
  raised,       \* the exception that left the function, "none" otherwise
  file,         \* the content of resposta.txt
  saves         \* number of save_to_txt calls

vars == <<site, mode, pc, quits, current_url, driver_url, navigated, quotes, idx,
          all_items, result, raised, file, saves>>

PageAt(u) == IF u \in SiteUrls THEN site[u] ELSE NotFound

Init ==
  /\ site \in Sites
  /\ mode \in {"all", "first"}
  /\ pc = "Start"
  /\ quits = 0
  /\ current_url = StartUrl
  /\ driver_url = <<>>
  /\ navigated = <<>>
  /\ quotes = <<>>
  /\ idx = 0
  /\ all_items = <<>>
  /\ result = <<>>
  /\ raised = "none"
  /\ file = StaleFile
  /\ saves = 0

\* ------------------------------------------------------------ _build_chrome
\* BuildChrome, had the local driver been looked for first
BuildChrome_LocalFirst ==
  /\ pc = "Start"
  /\ \E local_exists \in BOOLEAN, auto \in BOOLEAN :
       pc' = IF local_exists THEN "LocalFound" ELSE IF auto THEN "Loading" ELSE "Fallback"
  /\ UNCHANGED <<site, mode, file, saves, quits, current_url, driver_url, navigated,
                 quotes, idx, all_items, result, raised>>

\* 1) webdriver.Chrome(options=options): the session, or the except branch
\* that only prints and falls through to the fallback
BuildChrome ==
  /\ pc = "Start"
  /\ \E auto \in BOOLEAN : pc' = IF auto THEN "Loading" ELSE "Fallback"
  /\ UNCHANGED <<site, mode, file, saves, quits, current_url, driver_url, navigated,
                 quotes, idx, all_items, result, raised>>

\* 2) the CHROMEDRIVER variable, else drivers/chromedriver: when no such file
\* exists, the RuntimeError
LocalLookup ==
  /\ pc = "Fallback"
  /\ \E local_exists \in BOOLEAN :
       IF local_exists
         THEN pc' = "LocalFound" /\ raised' = raised
         ELSE pc' = "NoDriver" /\ raised' = "RuntimeError"
  /\ UNCHANGED <<site, mode, file, saves, quits, current_url, driver_url, navigated,
                 quotes, idx, all_items, result>>

\* webdriver.Chrome(service=service, options=options), which may raise too
LocalChrome ==
  /\ pc = "LocalFound"
  /\ \E local_ok \in BOOLEAN :
       IF local_ok
         THEN pc' = "Loading" /\ raised' = raised
         ELSE pc' = "NoDriver" /\ raised' = "WebDriverException"
  /\ UNCHANGED <<site, mode, file, saves, quits, current_url, driver_url, navigated,
                 quotes, idx, all_items, result>>

\* ------------------------------------------------- the try/except/finally
\* finally: driver.quit()
Quit == quits' = quits + 1

\* OnTimeout, had the handler returned a fresh list
OnTimeout_Discard ==
  /\ Quit
  /\ pc' = "Failed"
  /\ result' = <<>>
  /\ UNCHANGED <<all_items, raised>>

\* OnTimeout, had the handler stood inside the loop, which then goes on
OnTimeout_Retry ==
  /\ Quit
  /\ pc' = "Loading"
  /\ UNCHANGED <<all_items, raised, result>>

\* except TimeoutException, then finally, then the return statement
OnTimeout ==
  /\ Quit
  /\ pc' = "Failed"
  /\ result' = all_items
  /\ UNCHANGED <<all_items, raised>>

\* OnOtherException, had driver.quit() stood after the try statement
OnOtherException_NoQuit ==
  /\ quits' = quits
  /\ pc' = "Raised"
  /\ raised' = "WebDriverException"
  /\ UNCHANGED <<all_items, result>>

\* any other exception: finally, then the exception leaves the function
OnOtherException ==
  /\ Quit
  /\ pc' = "Raised"
  /\ raised' = "WebDriverException"
  /\ UNCHANGED <<all_items, result>>

\* ------------------------------------------------------ loading one page
\* driver.get(current_url); wait.until(presence_of_all_elements_located);
\* driver.find_elements: the containers showed up within the wait
LoadPage ==
  /\ pc = "Loading"
  /\ Len(navigated) < MaxVisits
  /\ PageAt(current_url).quotes # <<>>
  /\ navigated' = Append(navigated, current_url)
  /\ driver_url' = current_url
  /\ quotes' = PageAt(current_url).quotes
  /\ idx' = 1
  /\ pc' = "Extracting"
  /\ UNCHANGED <<site, mode, file, saves, quits, current_url, all_items, result, raised>>

\* the wait expires: no container on the page, or the page too slow
LoadTimeout ==
  /\ pc = "Loading"
  /\ Len(navigated) < MaxVisits
  /\ navigated' = Append(navigated, current_url)
  /\ driver_url' = current_url
  /\ OnTimeout
  /\ UNCHANGED <<site, mode, file, saves, current_url, quotes, idx>>

\* driver.get or the lookup raises something that is no TimeoutException
LoadError ==
  /\ pc = "Loading"
  /\ Len(navigated) < MaxVisits
  /\ navigated' = Append(navigated, current_url)
  /\ driver_url' = current_url
  /\ OnOtherException
  /\ UNCHANGED <<site, mode, file, saves, current_url, quotes, idx>>

\* ------------------------------------------------- the loop over containers
\* RecordOf, had the tags been collected last to first
RecordOf_TagsReversed(q) ==
  [ quote  |-> Head(q.text),
    author |-> Head(q.author),
    tags   |-> [i \in 1..Len(q.tags) |-> q.tags[Len(q.tags) + 1 - i]] ]

\* the dict built from one container
RecordOf(q) ==
  [ quote  |-> Head(q.text),
    author |-> Head(q.author),
    tags   |-> [i \in 1..Len(q.tags) |-> q.tags[i]] ]

\* q.find_element raises NoSuchElementException for the text or the author
Malformed(q) == q.text = <<>> \/ q.author = <<>>

\* ExtractStep, had the record been inserted at the front
ExtractStep_Prepend(items, q) ==
  IF Malformed(q) THEN items ELSE <<RecordOf(q)>> \o items

\* ExtractStep, had the record been appended before the author lookup
ExtractStep_Partial(items, q) ==
  IF q.text = <<>> THEN items
  ELSE Append(items, [ quote  |-> Head(q.text),
                       author |-> IF q.author = <<>> THEN <<>> ELSE Head(q.author),
                       tags   |-> q.tags ])

\* ExtractStep, had the list been assigned instead of appended to
ExtractStep_Assign(items, q) ==
  IF Malformed(q) THEN items ELSE <<RecordOf(q)>>

\* one iteration of the inner try/except NoSuchElementException
ExtractStep(items, q) == IF Malformed(q) THEN items ELSE Append(items, RecordOf(q))

\* ExtractOne, had a page without any record ended the crawl
ExtractOne_StopOnEmptyPage ==
  /\ pc = "Extracting"
  /\ idx <= Len(quotes)
  /\ all_items' = ExtractStep(all_items, quotes[idx])
  /\ IF idx < Len(quotes)
       THEN /\ idx' = idx + 1
            /\ UNCHANGED <<pc, quits, result>>
       ELSE /\ idx' = idx
            /\ IF mode = "all" /\ \E k \in 1..Len(quotes) : ~Malformed(quotes[k])
                 THEN pc' = "SeekingNext" /\ UNCHANGED <<quits, result>>
                 ELSE Quit /\ pc' = "Done" /\ result' = all_items'
  /\ UNCHANGED <<site, mode, file, saves, current_url, driver_url, navigated, quotes,
                 raised>>

\* ExtractOne, had scrape_first_page looked for a next link like scrape_all_pages
ExtractOne_AlwaysSeek ==
  /\ pc = "Extracting"
  /\ idx <= Len(quotes)
  /\ all_items' = ExtractStep(all_items, quotes[idx])
  /\ IF idx < Len(quotes)
       THEN idx' = idx + 1 /\ pc' = pc
       ELSE idx' = idx /\ pc' = "SeekingNext"
  /\ UNCHANGED <<site, mode, file, saves, current_url, driver_url, navigated, quotes, raised,
                 quits, result>>

ExtractOne ==
  /\ pc = "Extracting"
  /\ idx <= Len(quotes)
  /\ all_items' = ExtractStep(all_items, quotes[idx])
  /\ IF idx < Len(quotes)
       THEN /\ idx' = idx + 1
            /\ UNCHANGED <<pc, quits, result>>
       ELSE /\ idx' = idx
            /\ IF mode = "all"
                 THEN pc' = "SeekingNext" /\ UNCHANGED <<quits, result>>
                 ELSE Quit /\ pc' = "Done" /\ result' = all_items'
  /\ UNCHANGED <<site, mode, file, saves, current_url, driver_url, navigated, quotes, raised>>

\* a lookup inside the loop raises something that is no NoSuchElementException
ExtractError ==
  /\ pc = "Extracting"
  /\ idx <= Len(quotes)
  /\ OnOtherException
  /\ UNCHANGED <<site, mode, file, saves, current_url, driver_url, navigated, quotes, idx>>

\* ------------------------------------------------------------- pagination
\* NextCursor, had the cursor been left on the loaded page
NextCursor_Stay(link, cur) == cur

\* NextCursor, had data-href been read before href
NextCursor_DataFirst(link, cur) ==
  LET href2 == IF link.data # <<>> THEN link.data ELSE link.href
  IN  IF href2 # <<>> THEN href2 ELSE SynthUrl(cur)

\* next_href, then the cursor
NextCursor(link, cur) ==
  LET href1 == link.href
      href2 == IF href1 # <<>> THEN href1
               ELSE IF link.href # <<>> THEN link.href ELSE link.data
  IN  IF href2 # <<>> THEN href2 ELSE SynthUrl(cur)

NextLink == PageAt(driver_url).next

\* SeekNext, had the synthesized URL also served when the link is absent
SeekNext_SynthWhenAbsent ==
  /\ pc = "SeekingNext"
  /\ current_url' = IF NextLink.present THEN NextCursor(NextLink, driver_url)
                                        ELSE SynthUrl(driver_url)
  /\ pc' = "Loading"
  /\ UNCHANGED <<site, mode, file, saves, quits, driver_url, navigated, quotes, idx, all_items,
                 result, raised>>

SeekNext ==
  /\ pc = "SeekingNext"
  /\ IF NextLink.present
       THEN /\ current_url' = NextCursor(NextLink, driver_url)
            /\ pc' = "Loading"
            /\ UNCHANGED <<quits, result>>
       ELSE /\ Quit
            /\ pc' = "Done"
            /\ result' = all_items
            /\ UNCHANGED current_url
  /\ UNCHANGED <<site, mode, file, saves, driver_url, navigated, quotes, idx, all_items, raised>>

\* the link lookup raises something that is no NoSuchElementException
SeekError ==
  /\ pc = "SeekingNext"
  /\ OnOtherException
  /\ UNCHANGED <<site, mode, file, saves, current_url, driver_url, navigated, quotes, idx>>

\* ---------------------------------------------------------------- __main__
\* results = scrape_all_pages(...); save_to_txt(results, "resposta.txt")
\* MainSave, had the file been written only after a complete crawl
MainSave_OnlyWhenComplete ==
  /\ mode = "all"
  /\ pc = "Done"
  /\ saves = 0
  /\ file' = SaveToTxt(file, result)
  /\ saves' = saves + 1
  /\ UNCHANGED <<site, mode, pc, quits, current_url, driver_url, navigated, quotes, idx,
                 all_items, result, raised>>

MainSave ==
  /\ mode = "all"
  /\ pc \in {"Done", "Failed"}
  /\ saves = 0
  /\ file' = SaveToTxt(file, result)
  /\ saves' = saves + 1
  /\ UNCHANGED <<site, mode, pc, quits, current_url, driver_url, navigated, quotes, idx,
                 all_items, result, raised>>

Next ==
  \/ BuildChrome
  \/ LocalLookup
  \/ LocalChrome
  \/ LoadPage
  \/ LoadTimeout
  \/ LoadError
  \/ ExtractOne
  \/ ExtractError
  \/ SeekNext
  \/ SeekError
  \/ MainSave

Spec == Init /\ [][Next]_vars

\* the interpreter keeps executing the function until it returns or raises
FairSpec == Spec /\ WF_vars(Next)

\* ------------------------------------------- save_to_txt called on its own
\* texts with the characters that matter to the serialization
WriterQuotes ==
  { <<>>, <<"a">>, <<DQ>>, <<BS, "n">>, <<LF, "a">>, <<"é", ",", " ">> }
WriterAuthors == { <<"a", " ", "b">>, <<"é", BS>> }
WriterTags == { <<>>, << <<"é">> >>, << <<"a", DQ>>, <<"é">> >> }
WriterRecords == [quote : WriterQuotes, author : WriterAuthors, tags : WriterTags]
WriterItems == SeqsUpTo(WriterRecords, MaxItems)
PriorFiles == { <<>>, StaleFile }

\* save_to_txt(items, path) with any list of records and any file at path
WriterInit ==
  /\ site = [u \in SiteUrls |-> NotFound]
  /\ mode = "writer"
  /\ pc = "Call"
  /\ quits = 0
  /\ current_url = StartUrl
  /\ driver_url = <<>>
  /\ navigated = <<>>
  /\ quotes = <<>>
  /\ idx = 0
  /\ all_items = <<>>
  /\ result \in WriterItems
  /\ raised = "none"
  /\ file \in PriorFiles
  /\ saves = 0

SaveCall ==
  /\ mode = "writer"
  /\ pc = "Call"
  /\ file' = SaveToTxt(file, result)
  /\ saves' = saves + 1
  /\ pc' = "Written"
  /\ UNCHANGED <<site, mode, quits, current_url, driver_url, navigated, quotes, idx,
                 all_items, result, raised>>

WriterNext == SaveCall

WriterSpec == WriterInit /\ [][WriterNext]_vars

\* ======================================================================
\* What the crawl is expected to produce, stated from the site alone
\* ======================================================================
WellFormed(q) == Len(q.text) >= 1 /\ Len(q.author) >= 1

Expected(q) == [quote |-> q.text[1], author |-> q.author[1], tags |-> q.tags]

RECURSIVE PageRecords(_)
\* the records of the well-formed containers of qs, in document order
PageRecords(qs) ==
  IF qs = <<>> THEN <<>>
  ELSE (IF WellFormed(qs[1]) THEN <<Expected(qs[1])>> ELSE <<>>) \o PageRecords(Tail(qs))

RECURSIVE FlattenPages(_)
\* the records of the pages at urls, page after page
FlattenPages(urls) ==
  IF urls = <<>> THEN <<>>
  ELSE PageRecords(PageAt(urls[1]).quotes) \o FlattenPages(Tail(urls))

Front(s) == SubSeq(s, 1, Len(s) - 1)

IsPrefix(s, t) == Len(s) <= Len(t) /\ SubSeq(t, 1, Len(s)) = s

SessionHeld == pc \in {"Loading", "Extracting", "SeekingNext"}
SessionOver == pc \in {"Done", "Failed", "Raised"}
Returned == pc \in {"Done", "Failed"}

\* ---------------------------------------------------------------------
\* C1: in every run that obtained a browser session, of either function,
\* driver.quit() is called exactly once, on every exit path (normal end,
\* timeout, any other exception), and never while the crawl is running or
\* when no session was obtained.
C1_ReleasedExactlyOnce ==
  /\ SessionOver => quits = 1
  /\ SessionHeld => quits = 0
  /\ pc \in {"Start", "Fallback", "LocalFound", "NoDriver"} => quits = 0

C1_Witness ==
  /\ mode = "first" /\ pc = "Raised" /\ quits = 1 /\ all_items # <<>>

\* ---------------------------------------------------------------------
\* C2: when the wait times out on the K-th page loaded by scrape_all_pages,
\* the function raises nothing and returns the records of pages 1..K-1 in
\* order (nothing when K = 1), with the session released.
C2_TimeoutReturnsEarlierPages ==
  (mode = "all" /\ pc = "Failed") =>
     /\ raised = "none"
     /\ quits = 1
     /\ result = FlattenPages(Front(navigated))

C2_Witness ==
  /\ mode = "all" /\ pc = "Failed" /\ Len(navigated) = 3 /\ Len(result) = 3
  /\ raised = "none"

\* ---------------------------------------------------------------------
\* C3: an exception other than a timeout raised inside the loop of
\* scrape_all_pages does not leave the function: the accumulator is returned,
\* and only the failure to obtain a driver propagates to the caller.
C3_OnlyDriverFailurePropagates ==
  mode = "all" =>
     /\ raised # "none" => pc = "NoDriver"
     /\ quits = 1 => result = all_items

\* ---------------------------------------------------------------------
\* C4: from SeekingNext on a page without a next link no navigation is
\* issued and the loop is left in that very step; when the lookup reports
\* the absence (Done) the value returned is the accumulator, which holds the
\* records of every page loaded.
C4_NoNextLinkEndsCrawl ==
  [][ (pc = "SeekingNext" /\ ~PageAt(navigated[Len(navigated)]).next.present) =>
        /\ navigated' = navigated
        /\ current_url' = current_url
        /\ pc' \in {"Done", "Raised"}
        /\ pc' = "Done" =>
             /\ raised' = "none"
             /\ result' = all_items
             /\ result' = FlattenPages(navigated) ]_vars

C4_Witness ==
  /\ mode = "all" /\ pc = "Done" /\ Len(navigated) = 2 /\ Len(result) = 3

\* ---------------------------------------------------------------------
\* C5: at every point of scrape_all_pages the accumulator is the records of
\* the pages processed so far, page after page in visiting order, each page
\* in the document order of its containers, followed by those of the
\* containers already processed on the current page; the value returned is
\* that sequence.
C5_OrderPreserved ==
  mode = "all" =>
     /\ pc = "Extracting" =>
          all_items = FlattenPages(Front(navigated))
                        \o PageRecords(SubSeq(PageAt(navigated[Len(navigated)]).quotes,
                                              1, idx - 1))
     /\ pc \in {"Loading", "SeekingNext"} => all_items = FlattenPages(navigated)
     /\ pc = "Done" => result = FlattenPages(navigated)

C5_Witness ==
  /\ mode = "all" /\ pc = "Done" /\ Len(navigated) = 2 /\ Len(result) = 3
  /\ result[1].quote = <<"quote", "1", "1">>
  /\ result[2].quote = <<"quote", "1", "2">>
  /\ result[3].quote = <<"quote", "2", "1">>

\* ---------------------------------------------------------------------
\* C6: once a page whose N >= 1 containers are all well formed has been
\* processed (by either function), it has added exactly N records, the k-th
\* one carrying the text, the author and the tags, in document order, of the
\* k-th container.
C6_WellFormedPageYieldsAll ==
  ( /\ pc = "SeekingNext" \/ (mode = "first" /\ pc = "Done")
    /\ \A k \in 1..Len(quotes) : WellFormed(quotes[k]) ) =>
     LET n    == Len(quotes)
         base == Len(FlattenPages(Front(navigated)))
     IN  /\ n >= 1
         /\ Len(all_items) = base + n
         /\ \A k \in 1..n :
              /\ all_items[base + k].quote = quotes[k].text[1]
              /\ all_items[base + k].author = quotes[k].author[1]
              /\ all_items[base + k].tags = quotes[k].tags

C6_Witness ==
  /\ pc = "SeekingNext" /\ Len(navigated) = 2 /\ Len(quotes) = 2
  /\ \A k \in 1..Len(quotes) : WellFormed(quotes[k])
  /\ Len(all_items) = 3 /\ all_items[2].tags = << <<"love">>, <<"life">> >>
  /\ all_items[3].tags = <<>>

\* ---------------------------------------------------------------------
\* C7: a container without its text or its author adds nothing to the
\* accumulator, and the loop goes on: to the next container when there is
\* one, else to the next-link lookup (scrape_all_pages) or the return
\* (scrape_first_page); once the page is processed every well-formed
\* container of it, before and after the malformed ones, has its record.
C7_MalformedSkippedSiblingsKept ==
  /\ [][ ( /\ pc = "Extracting"
           /\ Len(quotes[idx].text) = 0 \/ Len(quotes[idx].author) = 0
           /\ raised' = "none" ) =>
          /\ all_items' = all_items
          /\ IF idx < Len(quotes)
               THEN pc' = "Extracting" /\ idx' = idx + 1 /\ quotes' = quotes
               ELSE pc' = (IF mode = "all" THEN "SeekingNext" ELSE "Done") ]_vars
  /\ []( (pc = "SeekingNext" \/ (mode = "first" /\ pc = "Done")) =>
           LET recs == PageRecords(quotes)
               base == Len(all_items) - Len(recs)
           IN  /\ base >= 0
               /\ SubSeq(all_items, base + 1, Len(all_items)) = recs
               /\ \A i \in 1..Len(all_items) :
                    Len(all_items[i].quote) = 3 /\ Len(all_items[i].author) = 3 )

C7_Witness ==
  /\ pc = "SeekingNext" /\ Len(quotes) = 3
  /\ WellFormed(quotes[1]) /\ quotes[2].author = <<>> /\ WellFormed(quotes[3])
  /\ all_items = <<Expected(quotes[1]), Expected(quotes[3])>>

\* ---------------------------------------------------------------------
\* C8: on a site whose chain of next links from the start URL ends at a
\* page without a next link, every run of scrape_all_pages that obtained a
\* session reaches Done or Failed, where it returns.
RECURSIVE ChainEnds(_, _)
ChainEnds(u, n) ==
  IF n = 0 THEN FALSE
  ELSE IF ~PageAt(u).next.present THEN TRUE
  ELSE LET l == PageAt(u).next
       IN  ChainEnds(IF l.href # <<>> THEN l.href
                     ELSE IF l.data # <<>> THEN l.data
                     ELSE SynthUrl(u), n - 1)

FiniteChain == ChainEnds(StartUrl, Cardinality(SiteUrls) + 1)

C8_ReachesDoneOrFailed ==
  (mode = "all" /\ pc = "Loading" /\ FiniteChain) ~> (pc \in {"Done", "Failed"})

\* what does hold there: the run ends, by a return or by an exception
C8_RunEnds ==
  (mode = "all" /\ pc = "Loading" /\ FiniteChain) ~> (pc \in {"Done", "Failed", "Raised"})

\* ---------------------------------------------------------------------
\* C9: when the next link is found the new cursor is its href when that is
\* not empty, else its data-href when that is not empty, else the loaded
\* page's URL without its trailing slashes followed by "/page/2/"; when the
\* link is absent the cursor is left alone.
Stripped(s) ==
  LET keep == {i \in 0..Len(s) : i = 0 \/ s[i] # "/"}
      n    == CHOOSE i \in keep : \A j \in keep : j <= i
  IN  SubSeq(s, 1, n)

C9_CursorFromLink ==
  [][ pc = "SeekingNext" =>
        LET l == PageAt(navigated[Len(navigated)]).next
        IN  /\ (l.present /\ raised' = "none") =>
               /\ pc' = "Loading"
               /\ l.href # <<>> => current_url' = l.href
               /\ (l.href = <<>> /\ l.data # <<>>) => current_url' = l.data
               /\ (l.href = <<>> /\ l.data = <<>>) =>
                     current_url' = Stripped(driver_url) \o <<"/", "page", "/", "2", "/">>
            /\ ~l.present => current_url' = current_url ]_vars

C9_Witness ==
  /\ pc = "Loading" /\ Len(navigated) = 2
  /\ PageAt(navigated[2]).next = Link(<<>>, <<>>)
  /\ current_url = Front(SecondUrl) \o PageTwoSuffix

\* ---------------------------------------------------------------------
\* C10: every step of a run leaves the accumulator as it was or extends it
\* at its end, and the value returned is the accumulator, also on the
\* timeout path.
C10_AccumulatorOnlyGrows ==
  [][ /\ IsPrefix(all_items, all_items')
      /\ pc' \in {"Done", "Failed"} => result' = all_items' ]_vars

C10_Witness ==
  /\ mode = "all" /\ pc = "Failed" /\ Len(navigated) = 2 /\ Len(all_items) = 2
  /\ result = all_items

\* ---------------------------------------------------------------------
\* C11: scrape_first_page passes exactly one URL, the one it was given, to
\* driver.get and never looks for a next link; when the wait for the
\* containers times out it raises nothing (no TimeoutException ever leaves
\* it), returns the empty list and has released the session.
C11_FirstPageOnly ==
  mode = "first" =>
     /\ Len(navigated) <= 1
     /\ pc \in {"Extracting", "Done", "Failed", "Raised"} => navigated = <<StartUrl>>
     /\ pc # "SeekingNext"
     /\ raised # "TimeoutException"
     /\ pc = "Failed" => (raised = "none" /\ result = <<>> /\ quits = 1)

C11_Witness ==
  /\ mode = "first" /\ pc = "Failed" /\ navigated = <<StartUrl>> /\ quits = 1
  /\ PageAt(StartUrl).next.present

\* ---------------------------------------------------------------------
\* Reading a file back: its lines, without their terminators
FirstLF(f) ==
  CHOOSE i \in 1..(Len(f) + 1) :
    /\ i = Len(f) + 1 \/ f[i] = "\n"
    /\ \A j \in 1..(i - 1) : f[j] # "\n"

RECURSIVE SplitLines(_)
SplitLines(f) ==
  IF f = <<>> THEN <<>>
  ELSE <<SubSeq(f, 1, FirstLF(f) - 1)>> \o SplitLines(SubSeq(f, FirstLF(f) + 1, Len(f)))

\* ---------------------------------------------------------------------
\* C12: in the main program, once scrape_all_pages has returned (Done, or
\* Failed by timeout) save_to_txt is called, once only, after driver.quit(),
\* with the sequence returned: the file then holds one line per record of
\* the pages processed before the end, in order, and nothing else.
C12_MainWritesWhatWasCollected ==
  /\ []( /\ saves <= 1
         /\ saves = 1 =>
              /\ mode = "all" /\ pc \in {"Done", "Failed"} /\ quits = 1
              /\ LET pages == IF pc = "Done" THEN navigated ELSE Front(navigated)
                     recs  == FlattenPages(pages)
                 IN  /\ result = recs
                     /\ SplitLines(file) = [i \in 1..Len(recs) |-> Dumps(recs[i])] )
  /\ (mode = "all" /\ pc \in {"Done", "Failed"}) ~> (saves = 1)

C12_Witness ==
  /\ saves = 1 /\ pc = "Failed" /\ Len(navigated) = 3 /\ Len(SplitLines(file)) = 3

\* ---------------------------------------------------------------------
\* C13: after save_to_txt the file holds exactly len(items) lines, each
\* ended by a newline, line i being the serialization of items[i], whatever
\* the file held before; for the empty list it is empty.
C13_FileIsTheItems ==
  pc = "Written" =>
     /\ SplitLines(file) = [i \in 1..Len(result) |-> Dumps(result[i])]
     /\ Cardinality({i \in 1..Len(file) : file[i] = "\n"}) = Len(result)
     /\ file # <<>> => file[Len(file)] = "\n"
     /\ result = <<>> => file = <<>>

C13_Witness ==
  /\ pc = "Written" /\ Len(result) = 2 /\ result[1] # result[2]
  /\ Len(SplitLines(file)) = 2 /\ file[1] = "{"

\* ---------------------------------------------------------------------
\* Parsing one line of the file as a JSON object of a record
NoParse == [ok |-> FALSE, val |-> <<>>, next |-> 0]

RECURSIVE ReadString(_, _, _)
\* the text of a JSON string whose opening quote precedes position i
ReadString(s, i, acc) ==
  IF i > Len(s) THEN NoParse
  ELSE IF s[i] = "\"" THEN [ok |-> TRUE, val |-> acc, next |-> i + 1]
  ELSE IF s[i] = "\n" THEN NoParse
  ELSE IF s[i] = "\\"
    THEN IF i + 1 > Len(s) THEN NoParse
         ELSE IF s[i + 1] = "\"" THEN ReadString(s, i + 2, Append(acc, "\""))
         ELSE IF s[i + 1] = "\\" THEN ReadString(s, i + 2, Append(acc, "\\"))
         ELSE IF s[i + 1] = "n" THEN ReadString(s, i + 2, Append(acc, "\n"))
         ELSE NoParse
  ELSE ReadString(s, i + 1, Append(acc, s[i]))

ParseString(s, i) ==
  IF i <= Len(s) /\ s[i] = "\"" THEN ReadString(s, i + 1, <<>>) ELSE NoParse

Has(s, i, lit) == i + Len(lit) - 1 <= Len(s) /\ SubSeq(s, i, i + Len(lit) - 1) = lit

RECURSIVE ReadItems(_, _, _)
\* the strings of a JSON list whose opening bracket precedes position i
ReadItems(s, i, acc) ==
  LET e == ParseString(s, i)
  IN  IF ~e.ok THEN NoParse
      ELSE IF Has(s, e.next, <<"]">>)
        THEN [ok |-> TRUE, val |-> Append(acc, e.val), next |-> e.next + 1]
      ELSE IF Has(s, e.next, <<",", " ">>)
        THEN ReadItems(s, e.next + 2, Append(acc, e.val))
      ELSE NoParse

ParseList(s, i) ==
  IF ~Has(s, i, <<"[">>) THEN NoParse
  ELSE IF Has(s, i + 1, <<"]">>) THEN [ok |-> TRUE, val |-> <<>>, next |-> i + 2]
  ELSE ReadItems(s, i + 1, <<>>)

\* the value of the member named key at position i, with the position after it
ParseMember(s, i, key, isList) ==
  LET k == ParseString(s, i)
  IN  IF ~(k.ok /\ k.val = key /\ Has(s, k.next, <<":", " ">>)) THEN NoParse
      ELSE IF isList THEN ParseList(s, k.next + 2) ELSE ParseString(s, k.next + 2)

ParseLine(s) ==
  IF ~Has(s, 1, <<"{">>) THEN NoParse
  ELSE LET q == ParseMember(s, 2, <<"quote">>, FALSE)
       IN  IF ~(q.ok /\ Has(s, q.next, <<",", " ">>)) THEN NoParse
           ELSE LET a == ParseMember(s, q.next + 2, <<"author">>, FALSE)
                IN  IF ~(a.ok /\ Has(s, a.next, <<",", " ">>)) THEN NoParse
                    ELSE LET t == ParseMember(s, a.next + 2, <<"tags">>, TRUE)
                         IN  IF ~(t.ok /\ Has(s, t.next, <<"}">>) /\ t.next = Len(s))
                               THEN NoParse
                               ELSE [ok |-> TRUE,
                                     val |-> [quote |-> q.val, author |-> a.val,
                                              tags |-> t.val],
                                     next |-> t.next + 1]

\* ---------------------------------------------------------------------
\* C14: the lines of the file written by save_to_txt, parsed one by one,
\* give back the records handed to it, field for field and in order, also
\* with quotes, backslashes, newlines and non-ASCII characters in the texts
\* and with an empty tag list.
C14_RoundTrip ==
  pc = "Written" =>
     LET lines == SplitLines(file)
     IN  /\ Len(lines) = Len(result)
         /\ \A i \in 1..Len(lines) :
              /\ ParseLine(lines[i]).ok
              /\ ParseLine(lines[i]).val.quote = result[i].quote
              /\ ParseLine(lines[i]).val.author = result[i].author
              /\ ParseLine(lines[i]).val.tags = result[i].tags

C14_Witness ==
  /\ pc = "Written" /\ Len(result) = 2
  /\ result[1].tags = << <<"a", "\"">>, <<"é">> >> /\ result[1].quote = <<"\n", "a">>
  /\ result[2].tags = <<>> /\ result[2].author = <<"é", "\\">>
  /\ ParseLine(SplitLines(file)[1]).val = result[1]

\* ---------------------------------------------------------------------
\* C15: _build_chrome looks for the local driver only after the automatic
\* resolution failed and uses it only once found; when none is found the
\* RuntimeError leaves scrape_all_pages / scrape_first_page, and in a run
\* without a driver no page is navigated, nothing is returned or written
\* and driver.quit() is never called.
C15_OrderedDriverFallback ==
  /\ [][ /\ pc' = "Fallback" => pc = "Start"
         /\ pc' = "LocalFound" => pc = "Fallback"
         /\ pc = "Fallback" =>
              pc' = "LocalFound" \/ (pc' = "NoDriver" /\ raised' = "RuntimeError")
         /\ raised' = "RuntimeError" => (pc = "Fallback" /\ pc' = "NoDriver") ]_vars
  /\ []( pc \in {"Start", "Fallback", "LocalFound", "NoDriver"} =>
           (navigated = <<>> /\ quits = 0 /\ result = <<>> /\ saves = 0) )
  /\ []( pc = "NoDriver" => raised \in {"RuntimeError", "WebDriverException"} )

C15_Witness ==
  /\ pc = "NoDriver" /\ raised = "RuntimeError" /\ navigated = <<>> /\ quits = 0

\* ---------------------------------------------------------------------
\* C16: once driver.quit() has been called nothing of the walker moves any
\* more: no navigation, no lookup, no append, no second release; the run is
\* in Done or Failed exactly when it has returned, and the value returned is
\* the accumulator as it stood when the session was released.
C16_DoneAndFailedAreTerminal ==
  /\ [][ quits >= 1 =>
           /\ pc' = pc /\ quits' = quits /\ raised' = raised
           /\ navigated' = navigated /\ current_url' = current_url
           /\ driver_url' = driver_url /\ quotes' = quotes /\ idx' = idx
           /\ all_items' = all_items /\ result' = result ]_vars
  /\ [][ (quits = 0 /\ quits' = 1 /\ pc' \in {"Done", "Failed"}) =>
           (result' = all_items' /\ IsPrefix(all_items, all_items')) ]_vars
  /\ []( pc \in {"Done", "Failed"} => (quits = 1 /\ result = all_items) )

C16_Witness ==
  /\ pc = "Done" /\ quits = 1 /\ saves = 1 /\ Len(result) = 3 /\ result = all_items

\* ---------------------------------------------------------------------
\* C17 as claimed: a page that contributes no record, be it that every
\* container is malformed or that it has no container, does not stop
\* scrape_all_pages: its containers wait can succeed, so that the walker
\* gets to SeekingNext.
C17_NoRecordPageGoesOn ==
  ( /\ mode = "all" /\ pc = "Loading" /\ Len(navigated) < MaxVisits
    /\ PageRecords(PageAt(current_url).quotes) = <<>> ) => ENABLED LoadPage

\* C17 as amended: when the extractor returns for a loaded page the walker
\* moves to SeekingNext, also when every container of the page was malformed
\* and the page added nothing, and the next link, when found, is followed; a
\* page without any container never gets to the extractor: its wait cannot
\* succeed and the crawl ends there.
C17_MalformedPageGoesOnEmptyPageStops ==
  /\ [][ ( /\ mode = "all" /\ pc = "Extracting" /\ idx = Len(quotes)
           /\ raised' = "none" ) => (pc' = "SeekingNext" /\ quits' = 0) ]_vars
  /\ [][ ( /\ pc = "SeekingNext" /\ PageAt(navigated[Len(navigated)]).next.present
           /\ raised' = "none" ) => (pc' = "Loading" /\ quits' = 0) ]_vars
  /\ [][ (pc = "Loading" /\ PageAt(current_url).quotes = <<>>) =>
           pc' \in {"Failed", "Raised"} ]_vars
  /\ []( (pc = "Loading" /\ Len(navigated) < MaxVisits) =>
           (ENABLED LoadPage <=> PageAt(current_url).quotes # <<>>) )

C17_Witness ==
  /\ mode = "all" /\ pc = "Extracting" /\ Len(navigated) = 2 /\ all_items = <<>>
  /\ Len(PageAt(navigated[1]).quotes) = 2
  /\ PageRecords(PageAt(navigated[1]).quotes) = <<>>

\* ---------------------------------------------------------------------
\* C18 as claimed: whatever the links of the site, scrape_all_pages passes
\* no URL twice to driver.get.
NoRepeat == \A i, j \in 1..Len(navigated) : i # j => navigated[i] # navigated[j]

C18_EachUrlLoadedOnce == mode = "all" => NoRepeat

\* C18 as amended: on a site whose chain of next links from the start URL
\* gets to a page without next link, no URL is loaded twice, at most one
\* URL more than the site serves is loaded (the synthesized one), and the
\* run ends, by a return or by an exception; on any other site, where a
\* link leads back to a visited page, the crawl never ends in Done: it ends
\* only by a timeout or an exception.
C18_EndsWhenChainEnds ==
  /\ []( (mode = "all" /\ FiniteChain) =>
           (NoRepeat /\ Len(navigated) <= Cardinality(SiteUrls) + 1) )
  /\ []( (mode = "all" /\ ~FiniteChain) => pc # "Done" )
  /\ (mode = "all" /\ pc = "Loading" /\ FiniteChain)
        ~> (quits = 1 /\ pc \in {"Done", "Failed", "Raised"})

C18_Witness ==
  /\ mode = "all" /\ FiniteChain /\ pc = "Failed" /\ Len(navigated) = 3
  /\ navigated[3] = Front(SecondUrl) \o PageTwoSuffix
  /\ Len(all_items) = 3

====
